---- MODULE Spec2Model ----
(***************************************************************************)
(* FAISS + SQLite vector store (backend/core/vector_store.py) and the RAG  *)
(* engine that indexes into it and retrieves from it                       *)
(* (backend/core/rag_engine.py), with the application lifespan             *)
(* (backend/main.py) that constructs the store and saves the index.        *)
(*                                                                         *)
(* Scores are exact rationals kept as integers in millionths               *)
(* (1.0 = 1000000); vector coordinates are integers in tenths.             *)
(***************************************************************************)
EXTENDS Integers, Sequences, FiniteSets, TLC

VARIABLES
    index,      \* self.index: the in-memory FAISS flat index, a sequence of vectors
    rows,       \* the embeddings table of the SQLite file, in rowid order
    disk,       \* the file data/faiss.index (`file`), and the index the last
                \* save_index wrote into it (`saved`, kept to state the round trip)
    pc,         \* position of the call in progress: "idle"; "loop", "insert" in
                \* index_user_content; "retrieved" when a retrieval holds its list
    call,       \* locals of the index_user_content call in progress
    last,       \* the last completed operation, its arguments and its outcome
    pristine,   \* TRUE while the first VectorStore instance lives and has loaded nothing
    threads,    \* the calls of add and search that run on threads of their own:
                \* for each thread its position and its locals
    swipefile   \* the swipefile table of data/swipefile.db (`rows`) and the
                \* largest id AUTOINCREMENT has given (`seq`)

vars == <<index, rows, disk, pc, call, last, pristine, threads, swipefile>>

-----------------------------------------------------------------------------
(* Bounds of the model *)

MaxIndex == 2       \* vectors the in-memory index may hold (specification Spec)
MaxRows == 2        \* rows the embeddings table may hold (specification Spec)
MaxBatch == 2       \* items of one index_user_content call (specification Spec)
MaxStore == 6       \* items the store may hold (specification SpecSearch)
MaxTopK == 2        \* largest top_k of a search
MaxShared == 3      \* vectors the index may hold (specification SpecConcurrent)
MaxVideos == 2      \* ids the swipefile table may give (specification SpecSwipe)

-----------------------------------------------------------------------------
(* Values.  A Python dict is a record whose DOMAIN is the set of keys that   *)
(* are supplied; the empty dict (and None, for a dict) is EmptyDict.         *)

EmptyDict == [k \in {} |-> 0]
None == "<None>"

dimension == 2              \* VectorStore(dimension=...): the index dimension

ScoreOne == 1000000         \* 1.0
ScoreNeutral == 500000      \* 0.5
MinPerformance == 500000    \* 0.5

Users == {"u1", "u2"}

\* EmbeddingEngine.embed_text / embed_texts: a deterministic map from a text
\* to its vector.  The text "x" stands for an embedder whose output has
\* another dimension than the store was constructed with.
embed_text(text) ==
    CASE text = "a" -> <<10, 0>>
      [] text = "b" -> <<0, 10>>
      [] text = "c" -> <<9, 1>>
      [] OTHER      -> <<10>>

\* The content items (dicts of content_items) callers put in a batch.
ItemA == [content |-> "a", platform |-> "tiktok", niche |-> "travel",
          content_type |-> "hook", performance |-> [views |-> 225000]]
ItemB == [content |-> "b", platform |-> "youtube", niche |-> "food",
          content_type |-> "script", performance |-> [views |-> 50000]]
ItemC == [content |-> "c", platform |-> "tiktok", niche |-> "travel",
          content_type |-> "script", performance |-> [views |-> 75000]]
ItemBare == [content |-> "b"]
ItemWrongDim == [content |-> "x", platform |-> "tiktok", performance |-> EmptyDict]
ItemNoContent == [platform |-> "tiktok"]
\* index_content passes `item.performance or {}`: no performance data.
ItemEmptyPerf == [content |-> "a", platform |-> "tiktok", niche |-> "travel",
                  content_type |-> "hook", performance |-> EmptyDict]
ItemNegative == [content |-> "a", platform |-> "tiktok", niche |-> "travel",
                 content_type |-> "hook", performance |-> [views |-> -100000]]
ItemViral == [content |-> "c", platform |-> "tiktok", niche |-> "travel",
              content_type |-> "hook",
              performance |-> [views |-> 250000, likes |-> 5000]]
ItemZero == [content |-> "a", platform |-> "tiktok", niche |-> "travel",
             content_type |-> "hook", performance |-> [views |-> 0]]

\* The performance records given to _calculate_performance_score: each
\* counter is absent or has one of these values.
Counters == {"views", "likes", "comments", "shares"}
CounterValues == {-500, 0, 200, 5000, 250000}
PerformanceRecords == UNION {[D -> CounterValues] : D \in SUBSET Counters}

-----------------------------------------------------------------------------
(* Pure functions *)

Has(d, k) == k \in DOMAIN d

\* dict.get(k, dflt)
Get(d, k, dflt) == IF Has(d, k) THEN d[k] ELSE dflt

Min(a, b) == IF a <= b THEN a ELSE b

Range(s) == {s[i] : i \in DOMAIN s}

\* _calculate_performance_score with no neutral score: no data counts as
\* counters all 0.
_calculate_performance_scoreNoNeutral(performance) ==
    Min(ScoreOne,
        4 * Get(performance, "views", 0) + 60 * Get(performance, "likes", 0)
        + 400 * Get(performance, "comments", 0)
        + 500 * Get(performance, "shares", 0))

\* _calculate_performance_score without the min(1.0, ...).
_calculate_performance_scoreUnclamped(performance) ==
    IF DOMAIN performance = {}
    THEN ScoreNeutral
    ELSE 4 * Get(performance, "views", 0) + 60 * Get(performance, "likes", 0)
         + 400 * Get(performance, "comments", 0)
         + 500 * Get(performance, "shares", 0)

\* RAGEngine._calculate_performance_score, in millionths:
\* views/100000*0.4 = 4*views/10^6, likes/5000*0.3 = 60*likes/10^6,
\* comments/500*0.2 = 400*comments/10^6, shares/200*0.1 = 500*shares/10^6.
_calculate_performance_score(performance) ==
    IF DOMAIN performance = {}
    THEN ScoreNeutral
    ELSE Min(ScoreOne,
             4 * Get(performance, "views", 0) + 60 * Get(performance, "likes", 0)
             + 400 * Get(performance, "comments", 0)
             + 500 * Get(performance, "shares", 0))

RECURSIVE SumSq(_, _, _)
SumSq(q, v, i) ==
    IF i = 0 THEN 0 ELSE (q[i] - v[i]) * (q[i] - v[i]) + SumSq(q, v, i - 1)

\* The squared Euclidean distance IndexFlatL2 ranks by.
L2sqr(q, v) == SumSq(q, v, dimension)

\* The vectors of a flat index laid out one after the other, as the index
\* keeps them (xb) and as the file holds them.
Flatten(idx) ==
    [k \in 1..(Len(idx) * dimension) |->
        idx[((k - 1) \div dimension) + 1][((k - 1) % dimension) + 1]]

\* No file at the path.
NoFile == [exists |-> FALSE, d |-> 0, ntotal |-> 0, xb |-> <<>>]

\* faiss.write_index of a flat index: the header (dimension d, size ntotal)
\* and the ntotal * d coordinates.
write_index(idx) ==
    [exists |-> TRUE, d |-> dimension, ntotal |-> Len(idx), xb |-> Flatten(idx)]

\* read_index taking the coordinates of the file column by column.
read_indexByColumn(file) ==
    [i \in 1..file.ntotal |->
        [j \in 1..file.d |-> file.xb[(j - 1) * file.ntotal + i]]]

\* faiss.read_index: vector i is the i-th run of d coordinates.
read_index(file) ==
    [i \in 1..file.ntotal |->
        [j \in 1..file.d |-> file.xb[(i - 1) * file.d + j]]]

-----------------------------------------------------------------------------
(* VectorStore.search *)

Positions(idx) == 0 .. (Len(idx) - 1)

\* self.index.search(query_vector, search_k) on the flat L2 index: the search_k
\* positions nearest to the query.  Which of several equidistant vectors is
\* kept at the cut is left to the index: every choice is an outcome.
index_search(idx, q, search_k) ==
    {S \in SUBSET Positions(idx) :
        /\ Cardinality(S) = search_k
        /\ \A i \in S : \A j \in Positions(idx) \ S :
              L2sqr(q, idx[i + 1]) <= L2sqr(q, idx[j + 1])}

\* SearchK with a factor of 2.
SearchKTwice(top_k, ntotal) == Min(top_k * 2, ntotal)

\* SearchK without the over-fetch factor.
SearchKNoOverfetch(top_k, ntotal) == Min(top_k, ntotal)

\* search_k = min(top_k * 5, self.index.ntotal)
SearchK(top_k, ntotal) == Min(top_k * 5, ntotal)

\* Matches without the condition on the owner.
MatchesAnyOwner(r, user_id, cands, filters) ==
    /\ r.faiss_id \in cands
    /\ Has(filters, "platform") => r.platform = filters.platform
    /\ Has(filters, "niche") => r.niche = filters.niche
    /\ Has(filters, "content_type") => r.content_type = filters.content_type
    /\ Has(filters, "min_performance") => r.performance_score >= filters.min_performance

\* Matches with a threshold of its own (0.5) when the filters hold none.
MatchesDefaultThreshold(r, user_id, cands, filters) ==
    /\ r.user_id = user_id
    /\ r.faiss_id \in cands
    /\ Has(filters, "platform") => r.platform = filters.platform
    /\ Has(filters, "niche") => r.niche = filters.niche
    /\ Has(filters, "content_type") => r.content_type = filters.content_type
    /\ r.performance_score >= Get(filters, "min_performance", MinPerformance)

\* The WHERE clause search builds: owner, candidate positions, then one
\* condition per key the filters dict holds.
Matches(r, user_id, cands, filters) ==
    /\ r.user_id = user_id
    /\ r.faiss_id \in cands
    /\ Has(filters, "platform") => r.platform = filters.platform
    /\ Has(filters, "niche") => r.niche = filters.niche
    /\ Has(filters, "content_type") => r.content_type = filters.content_type
    /\ Has(filters, "min_performance") => r.performance_score >= filters.min_performance

\* OrderLimit without the ORDER BY: the first top_k selected rows in rowid order.
OrderLimitByRowid(E, top_k) ==
    LET m == Min(top_k, Cardinality(E))
    IN  {s \in [1..m -> E] :
            /\ \A i, j \in 1..m : i < j => s[i].id < s[j].id
            /\ \A r \in E \ Range(s) : \A i \in 1..m : s[i].id < r.id}

\* ORDER BY performance_score DESC LIMIT top_k over the set E of selected
\* rows: every list SQLite may return (the order of equal scores is its own).
OrderLimit(E, top_k) ==
    LET m == Min(top_k, Cardinality(E))
    IN  {s \in [1..m -> E] :
            /\ \A i, j \in 1..m : i < j =>
                  /\ s[i] # s[j]
                  /\ s[i].performance_score >= s[j].performance_score
            /\ \A r \in E \ Range(s) : \A i \in 1..m :
                  s[i].performance_score >= r.performance_score}

\* search raising when fewer than top_k rows are selected.
searchShortRaises(idx, rws, query_embedding, user_id, filters, top_k) ==
    IF Len(idx) = 0
    THEN {[kind |-> "returned", results |-> <<>>]}
    ELSE IF Len(query_embedding) # dimension
    THEN {[kind |-> "raised", results |-> <<>>]}
    ELSE {[kind |-> IF Len(res) < top_k THEN "raised" ELSE "returned", results |-> res] :
            res \in UNION {OrderLimit({r \in Range(rws) : Matches(r, user_id, S, filters)},
                                      top_k) :
                           S \in index_search(idx, query_embedding,
                                              SearchK(top_k, Len(idx)))}}

\* The outcomes of VectorStore.search(query_embedding, user_id, filters, top_k)
\* for top_k >= 1.  With vectors in the index, a query of another dimension
\* fails the index's own check of the query shape.
search(idx, rws, query_embedding, user_id, filters, top_k) ==
    IF Len(idx) = 0
    THEN {[kind |-> "returned", results |-> <<>>]}
    ELSE IF Len(query_embedding) # dimension
    THEN {[kind |-> "raised", results |-> <<>>]}
    ELSE {[kind |-> "returned", results |-> res] :
            res \in UNION {OrderLimit({r \in Range(rws) : Matches(r, user_id, S, filters)},
                                      top_k) :
                           S \in index_search(idx, query_embedding,
                                              SearchK(top_k, Len(idx)))}}

\* retrieve_filters without the minimum performance.
retrieve_filtersNoThreshold(platform, niche, content_type) ==
    [k \in {x \in {"platform", "niche", "content_type"} :
                (CASE x = "platform" -> platform
                   [] x = "niche" -> niche
                   [] OTHER -> content_type) \notin {None, ""}} |->
        CASE k = "platform" -> platform
          [] k = "niche" -> niche
          [] OTHER -> content_type]

\* The filters RAGEngine.retrieve_context builds from its arguments.
retrieve_filters(platform, niche, content_type) ==
    [k \in {x \in {"platform", "niche", "content_type"} :
                (CASE x = "platform" -> platform
                   [] x = "niche" -> niche
                   [] OTHER -> content_type) \notin {None, ""}}
          \cup {"min_performance"} |->
        CASE k = "platform" -> platform
          [] k = "niche" -> niche
          [] k = "content_type" -> content_type
          [] OTHER -> MinPerformance]

-----------------------------------------------------------------------------
(* State after construction: VectorStore.__init__ over a new database file *)

NoCall == [user_id |-> None, todo |-> <<>>, count |-> 0, partial |-> FALSE]

\* The threads that call the store beside the event loop, and a thread that
\* runs no call.
Threads == {"t1", "t2"}
ThreadIdle == [pc |-> "idle"]

Init ==
    /\ index = <<>>
    /\ rows = <<>>
    /\ disk = [file |-> NoFile, saved |-> <<>>]
    /\ pc = "idle"
    /\ call = NoCall
    /\ last = [op |-> "init"]
    /\ pristine = TRUE
    /\ threads = [t \in Threads |-> ThreadIdle]
    /\ swipefile = [rows |-> {}, seq |-> 0]

-----------------------------------------------------------------------------
(* RAGEngine.index_user_content and the VectorStore.add calls it makes *)

WrongDim(item) == Len(embed_text(item.content)) # dimension

BadCount(items) == Cardinality({i \in DOMAIN items : WrongDim(items[i])})

\* routers/upload.py index_content: what the HTTP caller receives.
index_content(kind, count) ==
    IF kind = "returned"
    THEN [status |-> 200, indexed_count |-> count]
    ELSE [status |-> 500]

\* The record of a finished index_user_content call: `count` is the local
\* counter when the call ended, `len`, `bad` and `missing` describe the batch it
\* was given (its length, how many of its vectors have another dimension than
\* the index, and how many of its items have no content; the items done before
\* the end were all added, so the ones left tell), `partial` tells that the
\* call appended a vector whose row was not inserted.
IndexOutcome(kind, c) ==
    [op |-> "index_user_content", user_id |-> c.user_id, kind |-> kind,
     count |-> c.count, len |-> c.count + Len(c.todo), bad |-> BadCount(c.todo),
     missing |-> 0, partial |-> c.partial,
     response |-> index_content(kind, c.count)]

\* The number of items of a batch that have no 'content'.
MissingCount(items) == Cardinality({i \in DOMAIN items : ~Has(items[i], "content")})

\* IndexUserContent reading and embedding each item as the loop reaches it:
\* the items before the first one that fails are added before the call raises.
IndexUserContentLazy(user_id, content_items, embed_ok) ==
    /\ pc = "idle"
    /\ IF (\E i \in DOMAIN content_items : ~Has(content_items[i], "content")) \/ ~embed_ok
       THEN /\ last' = [op |-> "index_user_content", user_id |-> user_id,
                        kind |-> "raised", count |-> 0, len |-> Len(content_items),
                        bad |-> 0, missing |-> MissingCount(content_items),
                        partial |-> FALSE,
                        response |-> index_content("raised", 0)]
            /\ index' = IF Has(content_items[1], "content") /\ ~WrongDim(content_items[1])
                        THEN Append(index, embed_text(content_items[1].content))
                        ELSE index
            /\ UNCHANGED <<pc, call>>
       ELSE /\ pc' = "loop"
            /\ call' = [user_id |-> user_id, todo |-> content_items, count |-> 0,
                        partial |-> FALSE]
            /\ UNCHANGED <<last, index>>
    /\ UNCHANGED <<rows, disk, pristine, threads, swipefile>>

\* Lines 41-45: the texts are read and embedded before the first add.  An item
\* without 'content' raises KeyError; the embedder may raise.
IndexUserContent(user_id, content_items, embed_ok) ==
    /\ pc = "idle"
    /\ IF (\E i \in DOMAIN content_items : ~Has(content_items[i], "content")) \/ ~embed_ok
       THEN /\ last' = [op |-> "index_user_content", user_id |-> user_id,
                        kind |-> "raised", count |-> 0, len |-> Len(content_items),
                        bad |-> 0, missing |-> MissingCount(content_items),
                        partial |-> FALSE,
                        response |-> index_content("raised", 0)]
            /\ UNCHANGED <<pc, call>>
       ELSE /\ pc' = "loop"
            /\ call' = [user_id |-> user_id, todo |-> content_items, count |-> 0,
                        partial |-> FALSE]
            /\ UNCHANGED last
    /\ UNCHANGED <<index, rows, disk, pristine, threads, swipefile>>

\* AddAppend putting the new vector in front of the others.
AddAppendAtFront ==
    /\ pc = "loop"
    /\ call.todo # <<>>
    /\ LET item == Head(call.todo)
           embedding == embed_text(item.content)
       IN  IF Len(embedding) # dimension
           THEN /\ pc' = "idle"
                /\ call' = NoCall
                /\ last' = IndexOutcome("raised", call)
                /\ UNCHANGED index
           ELSE /\ index' = <<embedding>> \o index
                /\ pc' = "insert"
                /\ UNCHANGED <<call, last>>
    /\ UNCHANGED <<rows, disk, pristine, threads, swipefile>>

\* VectorStore.add lines 85-88: self.index.add(vector).  The index checks the
\* vector's dimension against its own and raises before it stores anything.
AddAppend ==
    /\ pc = "loop"
    /\ call.todo # <<>>
    /\ LET item == Head(call.todo)
           embedding == embed_text(item.content)
       IN  IF Len(embedding) # dimension
           THEN /\ pc' = "idle"
                /\ call' = NoCall
                /\ last' = IndexOutcome("raised", call)
                /\ UNCHANGED index
           ELSE /\ index' = Append(index, embedding)
                /\ pc' = "insert"
                /\ UNCHANGED <<call, last>>
    /\ UNCHANGED <<rows, disk, pristine, threads, swipefile>>

\* The row add inserts for an item (metadata and created_at are not modelled).
NewRow(user_id, item, faiss_id, id) ==
    [id |-> id,
     faiss_id |-> faiss_id,
     user_id |-> user_id,
     platform |-> Get(item, "platform", "unknown"),
     niche |-> Get(item, "niche", "general"),
     content_type |-> Get(item, "content_type", "text"),
     content |-> item.content,
     performance_score |-> _calculate_performance_score(Get(item, "performance", EmptyDict))]

\* AddInsert with the exception of a failed INSERT caught and logged, the loop
\* going on to the next item.
AddInsertSwallowed(storage_ok) ==
    /\ pc = "insert"
    /\ IF call.user_id = None \/ ~storage_ok
       THEN /\ call' = [call EXCEPT !.todo = Tail(@), !.partial = TRUE]
            /\ pc' = "loop"
            /\ UNCHANGED <<rows, last>>
       ELSE /\ rows' = Append(rows, NewRow(call.user_id, Head(call.todo),
                                           Len(index) - 1, Len(rows) + 1))
            /\ call' = [call EXCEPT !.todo = Tail(@), !.count = @ + 1]
            /\ pc' = "loop"
            /\ UNCHANGED last
    /\ UNCHANGED <<index, disk, pristine, threads, swipefile>>

\* VectorStore.add lines 88-108: faiss_id = ntotal - 1, INSERT, commit; then
\* count += 1 in the caller.  The INSERT raises when user_id is None (NOT NULL)
\* or when SQLite cannot write (storage_ok is FALSE); the exception leaves add
\* and index_user_content, and the appended vector stays in the index.
AddInsert(storage_ok) ==
    /\ pc = "insert"
    /\ IF call.user_id = None \/ ~storage_ok
       THEN /\ pc' = "idle"
            /\ call' = NoCall
            /\ last' = IndexOutcome("raised", [call EXCEPT !.partial = TRUE])
            /\ UNCHANGED rows
       ELSE /\ rows' = Append(rows, NewRow(call.user_id, Head(call.todo),
                                           Len(index) - 1, Len(rows) + 1))
            /\ call' = [call EXCEPT !.todo = Tail(@), !.count = @ + 1]
            /\ pc' = "loop"
            /\ UNCHANGED last
    /\ UNCHANGED <<index, disk, pristine, threads, swipefile>>

\* Lines 66-67: return count.
IndexReturn ==
    /\ pc = "loop"
    /\ call.todo = <<>>
    /\ pc' = "idle"
    /\ call' = NoCall
    /\ last' = IndexOutcome("returned", call)
    /\ UNCHANGED <<index, rows, disk, pristine, threads, swipefile>>

-----------------------------------------------------------------------------
(* Retrieval *)

\* A call of VectorStore.search; the list it computed is in `last` until the
\* caller takes it (RetrievalReturn).
Search(query_embedding, user_id, filters, top_k) ==
    /\ pc = "idle"
    /\ pc' = "retrieved"
    /\ \E out \in search(index, rows, query_embedding, user_id, filters, top_k) :
          last' = [op |-> "search", query |-> query_embedding, user_id |-> user_id,
                   filters |-> filters, top_k |-> top_k,
                   kind |-> out.kind, results |-> out.results]
    /\ UNCHANGED <<index, rows, disk, call, pristine, threads, swipefile>>

\* RAGEngine.retrieve_context: embed the query, build the filters, search.
RetrieveContext(user_id, query, platform, niche, content_type, top_k) ==
    /\ pc = "idle"
    /\ pc' = "retrieved"
    /\ LET filters == retrieve_filters(platform, niche, content_type)
       IN  \E out \in search(index, rows, embed_text(query), user_id, filters, top_k) :
              last' = [op |-> "retrieve_context", query |-> embed_text(query),
                       user_id |-> user_id, filters |-> filters, top_k |-> top_k,
                       kind |-> out.kind, results |-> out.results]
    /\ UNCHANGED <<index, rows, disk, call, pristine, threads, swipefile>>

\* The retrieval returns (or raises) to its caller.
RetrievalReturn ==
    /\ pc = "retrieved"
    /\ pc' = "idle"
    /\ last' = [op |-> "retrieved", kind |-> last.kind]
    /\ UNCHANGED <<index, rows, disk, call, pristine, threads, swipefile>>

\* A call of RAGEngine._calculate_performance_score on its own.
CalculatePerformanceScore(performance) ==
    /\ pc = "idle"
    /\ last' = [op |-> "_calculate_performance_score", performance |-> performance,
                score |-> _calculate_performance_score(performance)]
    /\ UNCHANGED <<index, rows, disk, pc, call, pristine, threads, swipefile>>

\* CountUserContent without the WHERE clause.
CountUserContentAllRows(user_id) ==
    /\ pc = "idle"
    /\ last' = [op |-> "count_user_content", user_id |-> user_id,
                count |-> Len(rows)]
    /\ UNCHANGED <<index, rows, disk, pc, call, pristine, threads, swipefile>>

\* VectorStore.count_user_content: SELECT COUNT(*) ... WHERE user_id = ?
CountUserContent(user_id) ==
    /\ pc = "idle"
    /\ last' = [op |-> "count_user_content", user_id |-> user_id,
                count |-> Cardinality({i \in DOMAIN rows : rows[i].user_id = user_id})]
    /\ UNCHANGED <<index, rows, disk, pc, call, pristine, threads, swipefile>>

-----------------------------------------------------------------------------
(* VectorStore.add and VectorStore.search called from several threads.  The  *)
(* connection is opened with check_same_thread=False and the store holds no  *)
(* lock: the statements of one call interleave with those of another.  Each  *)
(* statement is taken as one step (the index and SQLite are not modelled     *)
(* below the statement).                                                     *)

\* add line 87: self.index.add(vector).
ThreadAddAppend(t, user_id, item) ==
    /\ threads[t] = ThreadIdle
    /\ ~WrongDim(item)
    /\ index' = Append(index, embed_text(item.content))
    /\ threads' = [threads EXCEPT ![t] =
                      [pc |-> "appended", user_id |-> user_id, item |-> item]]
    /\ UNCHANGED <<rows, disk, pc, call, last, pristine, swipefile>>

\* add line 88: faiss_id = self.index.ntotal - 1.
ThreadAddReadNtotal(t) ==
    /\ threads[t].pc = "appended"
    /\ threads' = [threads EXCEPT ![t] =
                      [pc |-> "insert", user_id |-> threads[t].user_id,
                       item |-> threads[t].item, faiss_id |-> Len(index) - 1]]
    /\ UNCHANGED <<index, rows, disk, pc, call, last, pristine, swipefile>>

\* add lines 91-108: INSERT, commit, return.
ThreadAddInsert(t) ==
    /\ threads[t].pc = "insert"
    /\ rows' = Append(rows, NewRow(threads[t].user_id, threads[t].item,
                                   threads[t].faiss_id, Len(rows) + 1))
    /\ threads' = [threads EXCEPT ![t] = ThreadIdle]
    /\ UNCHANGED <<index, disk, pc, call, last, pristine, swipefile>>

\* search lines 126-134: return [] on an empty index; otherwise search_k from
\* ntotal and self.index.search.  `first` keeps the sizes of the index and of
\* the table at this instant.
ThreadSearchIndex(t, query_embedding, user_id, filters, top_k) ==
    /\ threads[t] = ThreadIdle
    /\ Len(query_embedding) = dimension
    /\ LET sizes == <<Len(index), Len(rows)>>
       IN  IF Len(index) = 0
           THEN threads' = [threads EXCEPT ![t] =
                              [pc |-> "found", results |-> <<>>,
                               first |-> sizes, second |-> sizes]]
           ELSE \E S \in index_search(index, query_embedding, SearchK(top_k, Len(index))) :
                   threads' = [threads EXCEPT ![t] =
                                 [pc |-> "sql", user_id |-> user_id, filters |-> filters,
                                  top_k |-> top_k, cands |-> S, first |-> sizes]]
    /\ UNCHANGED <<index, rows, disk, pc, call, last, pristine, swipefile>>

\* search lines 136-182: the SELECT over the rows at the candidate positions.
\* `second` keeps the sizes at this instant.
ThreadSearchSelect(t) ==
    /\ threads[t].pc = "sql"
    /\ \E res \in OrderLimit({r \in Range(rows) :
                                 Matches(r, threads[t].user_id, threads[t].cands,
                                         threads[t].filters)},
                             threads[t].top_k) :
          threads' = [threads EXCEPT ![t] =
                        [pc |-> "found", results |-> res, first |-> threads[t].first,
                         second |-> <<Len(index), Len(rows)>>]]
    /\ UNCHANGED <<index, rows, disk, pc, call, last, pristine, swipefile>>

\* search line 184: return results.
ThreadSearchReturn(t) ==
    /\ threads[t].pc = "found"
    /\ threads' = [threads EXCEPT ![t] = ThreadIdle]
    /\ UNCHANGED <<index, rows, disk, pc, call, last, pristine, swipefile>>

-----------------------------------------------------------------------------
(* SwipeFile (backend/core/swipefile.py).  A row keeps id, user_id, url,     *)
(* title, tags (the JSON text), notes and performance_estimate; platform,    *)
(* thumbnail_url, duration and saved_at are not modelled.  Every call opens  *)
(* a connection of its own: a statement with its commit is one step, and the *)
(* SELECT of save_video is a step apart from the statement that follows it.  *)

Urls == {"v1", "v2"}

\* The optional arguments of save_video.
SaveArgs == {
    [title |-> None, tags |-> None, notes |-> None],
    [title |-> "T", tags |-> "[t1]", notes |-> "n1"]
}

\* The optional arguments of update_video.
UpdateArgs == {
    [tags |-> None, notes |-> None, performance_estimate |-> None],
    [tags |-> None, notes |-> "n2", performance_estimate |-> None],
    [tags |-> "[t2]", notes |-> None, performance_estimate |-> "high"]
}

\* COALESCE(?, column)
Coalesce(param, old) == IF param = None THEN old ELSE param

\* json.dumps(tags or [])
TagsOrEmpty(tags) == IF tags = None THEN "[]" ELSE tags

\* save_video lines 74-83: SELECT id FROM swipefile WHERE user_id = ? AND
\* url = ?; `existing` is the id found, 0 when there is none.
SaveVideoSelect(t, user_id, url, args) ==
    /\ threads[t] = ThreadIdle
    /\ LET found == {r \in swipefile.rows : r.user_id = user_id /\ r.url = url}
       IN  threads' = [threads EXCEPT ![t] =
                         [pc |-> "save_selected", user_id |-> user_id, url |-> url,
                          args |-> args,
                          existing |-> IF found = {} THEN 0
                                       ELSE (CHOOSE r \in found : TRUE).id]]
    /\ UNCHANGED <<index, rows, disk, pc, call, last, pristine, swipefile>>

\* The row the UPDATE of save_video makes of row r.
SaveUpdated(r, args) ==
    [r EXCEPT !.title = Coalesce(args.title, @),
              !.tags = TagsOrEmpty(args.tags),
              !.notes = Coalesce(args.notes, @)]

\* SaveVideoWrite on a table without UNIQUE(user_id, url).
SaveVideoWriteNoUnique(t) ==
    /\ threads[t].pc = "save_selected"
    /\ LET w == threads[t]
       IN  IF w.existing # 0
           THEN /\ swipefile' = [swipefile EXCEPT !.rows =
                                   {IF r.id = w.existing THEN SaveUpdated(r, w.args) ELSE r :
                                      r \in swipefile.rows}]
                /\ last' = [op |-> "save_video", user_id |-> w.user_id, url |-> w.url,
                            kind |-> "returned", id |-> w.existing,
                            existing |-> w.existing, added |-> FALSE]
           ELSE /\ swipefile' =
                     [rows |-> swipefile.rows \cup
                                 {[id |-> swipefile.seq + 1, user_id |-> w.user_id,
                                   url |-> w.url, title |-> w.args.title,
                                   tags |-> TagsOrEmpty(w.args.tags),
                                   notes |-> w.args.notes,
                                   performance_estimate |-> None]},
                      seq |-> swipefile.seq + 1]
                /\ last' = [op |-> "save_video", user_id |-> w.user_id, url |-> w.url,
                            kind |-> "returned", id |-> swipefile.seq + 1,
                            existing |-> 0, added |-> TRUE]
    /\ threads' = [threads EXCEPT ![t] = ThreadIdle]
    /\ UNCHANGED <<index, rows, disk, pc, call, pristine>>

\* save_video lines 85-126: the UPDATE of the row found, or the INSERT of a
\* new row, then commit and return.  The INSERT raises (IntegrityError) when
\* a row of the pair was stored since the SELECT: UNIQUE(user_id, url).
SaveVideoWrite(t) ==
    /\ threads[t].pc = "save_selected"
    /\ LET w == threads[t]
       IN  IF w.existing # 0
           THEN /\ swipefile' = [swipefile EXCEPT !.rows =
                                   {IF r.id = w.existing THEN SaveUpdated(r, w.args) ELSE r :
                                      r \in swipefile.rows}]
                /\ last' = [op |-> "save_video", user_id |-> w.user_id, url |-> w.url,
                            kind |-> "returned", id |-> w.existing,
                            existing |-> w.existing, added |-> FALSE]
           ELSE IF \E r \in swipefile.rows : r.user_id = w.user_id /\ r.url = w.url
           THEN /\ last' = [op |-> "save_video", user_id |-> w.user_id, url |-> w.url,
                            kind |-> "raised", id |-> 0, existing |-> 0, added |-> FALSE]
                /\ UNCHANGED swipefile
           ELSE /\ swipefile' =
                     [rows |-> swipefile.rows \cup
                                 {[id |-> swipefile.seq + 1, user_id |-> w.user_id,
                                   url |-> w.url, title |-> w.args.title,
                                   tags |-> TagsOrEmpty(w.args.tags),
                                   notes |-> w.args.notes,
                                   performance_estimate |-> None]},
                      seq |-> swipefile.seq + 1]
                /\ last' = [op |-> "save_video", user_id |-> w.user_id, url |-> w.url,
                            kind |-> "returned", id |-> swipefile.seq + 1,
                            existing |-> 0, added |-> TRUE]
    /\ threads' = [threads EXCEPT ![t] = ThreadIdle]
    /\ UNCHANGED <<index, rows, disk, pc, call, pristine>>

\* The row the UPDATE of update_video makes of row r: a column is set when
\* its argument is not None.
VideoUpdated(r, args) ==
    [r EXCEPT !.tags = Coalesce(args.tags, @),
              !.notes = Coalesce(args.notes, @),
              !.performance_estimate = Coalesce(args.performance_estimate, @)]

NoUpdates(args) ==
    args.tags = None /\ args.notes = None /\ args.performance_estimate = None

\* UpdateVideo with WHERE id = ? alone.
UpdateVideoAnyOwner(user_id, video_id, args) ==
    /\ IF NoUpdates(args)
       THEN /\ last' = [op |-> "update_video", user_id |-> user_id,
                        video_id |-> video_id, args |-> args,
                        status |-> "error", message |-> "No updates provided"]
            /\ UNCHANGED swipefile
       ELSE LET hit == {r \in swipefile.rows : r.id = video_id}
            IN  /\ swipefile' = [swipefile EXCEPT !.rows =
                                   {IF r \in hit THEN VideoUpdated(r, args) ELSE r :
                                      r \in swipefile.rows}]
                /\ last' = [op |-> "update_video", user_id |-> user_id,
                            video_id |-> video_id, args |-> args,
                            status |-> IF hit = {} THEN "error" ELSE "success",
                            message |-> IF hit = {} THEN "Video not found"
                                        ELSE "Video updated"]
    /\ UNCHANGED <<index, rows, disk, pc, call, pristine, threads>>

\* update_video: no column to set returns "No updates provided"; otherwise
\* UPDATE ... WHERE id = ? AND user_id = ?, and "Video not found" when no row
\* was updated.
UpdateVideo(user_id, video_id, args) ==
    /\ IF NoUpdates(args)
       THEN /\ last' = [op |-> "update_video", user_id |-> user_id,
                        video_id |-> video_id, args |-> args,
                        status |-> "error", message |-> "No updates provided"]
            /\ UNCHANGED swipefile
       ELSE LET hit == {r \in swipefile.rows : r.id = video_id /\ r.user_id = user_id}
            IN  /\ swipefile' = [swipefile EXCEPT !.rows =
                                   {IF r \in hit THEN VideoUpdated(r, args) ELSE r :
                                      r \in swipefile.rows}]
                /\ last' = [op |-> "update_video", user_id |-> user_id,
                            video_id |-> video_id, args |-> args,
                            status |-> IF hit = {} THEN "error" ELSE "success",
                            message |-> IF hit = {} THEN "Video not found"
                                        ELSE "Video updated"]
    /\ UNCHANGED <<index, rows, disk, pc, call, pristine, threads>>

\* delete_video: DELETE FROM swipefile WHERE id = ? AND user_id = ?
DeleteVideo(user_id, video_id) ==
    /\ LET hit == {r \in swipefile.rows : r.id = video_id /\ r.user_id = user_id}
       IN  /\ swipefile' = [swipefile EXCEPT !.rows = @ \ hit]
           /\ last' = [op |-> "delete_video", user_id |-> user_id,
                       video_id |-> video_id,
                       status |-> IF hit = {} THEN "error" ELSE "success",
                       message |-> IF hit = {} THEN "Video not found"
                                   ELSE "Video deleted"]
    /\ UNCHANGED <<index, rows, disk, pc, call, pristine, threads>>

-----------------------------------------------------------------------------
(* Persistence of the index and the life of the process *)

\* VectorStore.save_index: faiss.write_index(self.index, path).
SaveIndex ==
    /\ pc = "idle"
    /\ disk' = [file |-> write_index(index), saved |-> index]
    /\ last' = [op |-> "save_index"]
    /\ UNCHANGED <<index, rows, pc, call, pristine, threads, swipefile>>

\* LoadIndex starting from an empty index when there is no file.
LoadIndexEmptyWhenNoFile ==
    /\ pc = "idle"
    /\ index' = IF disk.file.exists THEN read_index(disk.file) ELSE <<>>
    /\ last' = [op |-> "load_index", found |-> disk.file.exists, before |-> index]
    /\ pristine' = FALSE
    /\ UNCHANGED <<rows, disk, pc, call, threads, swipefile>>

\* VectorStore.load_index: the index read from the file replaces self.index
\* when the file exists; otherwise the index stays.  `last` keeps the index the
\* store had before the call.
LoadIndex ==
    /\ pc = "idle"
    /\ index' = IF disk.file.exists THEN read_index(disk.file) ELSE index
    /\ last' = [op |-> "load_index", found |-> disk.file.exists, before |-> index]
    /\ pristine' = FALSE
    /\ UNCHANGED <<rows, disk, pc, call, threads, swipefile>>

\* lifespan: on shutdown vector_store.save_index(); on the next startup
\* vector_store = VectorStore(), whose index is a new empty IndexFlatL2 over
\* the same SQLite file (load_index is not called).
LifespanRestart ==
    /\ pc = "idle"
    /\ \A t \in Threads : threads[t] = ThreadIdle
    /\ disk' = [file |-> write_index(index), saved |-> index]
    /\ index' = <<>>
    /\ last' = [op |-> "startup"]
    /\ pristine' = FALSE
    /\ UNCHANGED <<rows, pc, call, threads, swipefile>>

\* The process dies (no shutdown hook runs) and is started again.
CrashRestart ==
    /\ index' = <<>>
    /\ pc' = "idle"
    /\ call' = NoCall
    /\ last' = [op |-> "startup"]
    /\ pristine' = FALSE
    /\ threads' = [t \in Threads |-> ThreadIdle]
    /\ UNCHANGED <<rows, disk, swipefile>>

-----------------------------------------------------------------------------
(* Specifications *)

Room(n, max_index, max_rows) ==
    /\ Len(index) + n <= max_index
    /\ Len(rows) + n <= max_rows

\* Spec: the store through indexing calls that may fail at any item, saves,
\* loads, restarts, counts and searches.
BatchesOver(items) == UNION {[1..n -> items] : n \in 1..MaxBatch}

\* The calls of Spec: u1 uploads batches that may hold an item of another
\* dimension or an item without content, u2 uploads plain items, and one
\* caller passes no user_id.
LifeCalls ==
    ({"u1"} \X BatchesOver({ItemA, ItemWrongDim, ItemNoContent}))
    \cup ({"u2"} \X BatchesOver({ItemBare}))
    \cup {<<None, <<ItemA>> >>}

Next ==
    \/ \E c \in LifeCalls, embed_ok \in BOOLEAN :
          Room(Len(c[2]), MaxIndex, MaxRows) /\ IndexUserContent(c[1], c[2], embed_ok)
    \/ AddAppend
    \/ \E storage_ok \in BOOLEAN : AddInsert(storage_ok)
    \/ IndexReturn
    \/ \E u \in Users : Search(embed_text("a"), u, EmptyDict, MaxTopK)
    \/ RetrievalReturn
    \/ \E u \in Users : CountUserContent(u)
    \/ SaveIndex
    \/ LoadIndex
    \/ LifespanRestart
    \/ CrashRestart

Spec == Init /\ [][Next]_vars

\* The arguments of the retrievals.
QueryVectors == {embed_text("a"), embed_text("b"), embed_text("x")}

FilterSets == {
    EmptyDict,
    [platform |-> "tiktok", niche |-> "travel"],
    [content_type |-> "script"],
    [min_performance |-> 300000]
}

RetrieveArgs == {
    [platform |-> None, niche |-> None, content_type |-> None],
    [platform |-> "", niche |-> "travel", content_type |-> None],
    [platform |-> "tiktok", niche |-> None, content_type |-> "hook"]
}

\* A store that grows one item at a time, with no failure and no restart, up
\* to a size at which the candidate pool is smaller than the index, and the
\* retrievals on it.
RetrievalNext(calls) ==
    \/ \E c \in calls :
          Room(1, MaxStore, MaxStore) /\ IndexUserContent(c[1], c[2], TRUE)
    \/ AddAppend
    \/ AddInsert(TRUE)
    \/ IndexReturn
    \/ \E q \in QueryVectors, u \in Users, f \in FilterSets, k \in 1..MaxTopK :
          Search(q, u, f, k)
    \/ \E u \in Users, query \in {"a", "b"}, a \in RetrieveArgs, k \in 1..MaxTopK :
          RetrieveContext(u, query, a.platform, a.niche, a.content_type, k)
    \/ RetrievalReturn

\* SpecSearch: two owners share the index.
SearchCalls == {<<"u1", <<ItemA>> >>, <<"u1", <<ItemC>> >>, <<"u2", <<ItemB>> >>}
NextSearch == RetrievalNext(SearchCalls)
SpecSearch == Init /\ [][NextSearch]_vars

\* SpecScenarioA: one owner indexes the three items of Scenario A.
ScenarioCalls == {<<"u1", <<ItemA>> >>, <<"u1", <<ItemB>> >>, <<"u1", <<ItemC>> >>}
NextScenarioA == RetrievalNext(ScenarioCalls)
SpecScenarioA == Init /\ [][NextScenarioA]_vars

\* SpecConcurrent: two threads call add and search on the one store.
ThreadAdds == {<<"u1", ItemA>>, <<"u2", ItemB>>}

NextConcurrent ==
    \/ \E t \in Threads, c \in ThreadAdds :
          Len(index) < MaxShared /\ ThreadAddAppend(t, c[1], c[2])
    \/ \E t \in Threads : ThreadAddReadNtotal(t)
    \/ \E t \in Threads : ThreadAddInsert(t)
    \/ \E t \in Threads, u \in Users, k \in 1..MaxTopK :
          ThreadSearchIndex(t, embed_text("a"), u, EmptyDict, k)
    \/ \E t \in Threads : ThreadSearchSelect(t)
    \/ \E t \in Threads : ThreadSearchReturn(t)

SpecConcurrent == Init /\ [][NextConcurrent]_vars

\* SpecExclusive: two threads call add while the index is saved and loaded.
\* The adds that have appended and not yet inserted count against the bound
\* on the rows.
AddsInProgress == {t \in Threads : threads[t].pc \in {"appended", "insert"}}

NextExclusive ==
    \/ \E t \in Threads, c \in ThreadAdds :
          /\ Len(index) < MaxIndex
          /\ Len(rows) + Cardinality(AddsInProgress) < MaxRows
          /\ ThreadAddAppend(t, c[1], c[2])
    \/ \E t \in Threads : ThreadAddReadNtotal(t)
    \/ \E t \in Threads : ThreadAddInsert(t)
    \/ SaveIndex
    \/ LoadIndex

SpecExclusive == Init /\ [][NextExclusive]_vars

\* SpecSwipe: save_video, update_video and delete_video calls, the saves of
\* two threads interleaving.
SavesInProgress == {t \in Threads : threads[t].pc = "save_selected"}

\* The saves in progress that will INSERT: their SELECT found no row.
InsertsInProgress == {t \in SavesInProgress : threads[t].existing = 0}

NextSwipe ==
    \/ \E t \in Threads, u \in Users, url \in Urls, a \in SaveArgs :
          /\ swipefile.seq + Cardinality(InsertsInProgress) < MaxVideos
          /\ SaveVideoSelect(t, u, url, a)
    \/ \E t \in Threads : SaveVideoWrite(t)
    \/ \E u \in Users, id \in 1..MaxVideos, a \in UpdateArgs : UpdateVideo(u, id, a)
    \/ \E u \in Users, id \in 1..MaxVideos : DeleteVideo(u, id)

SpecSwipe == Init /\ [][NextSwipe]_vars

\* SpecScore: _calculate_performance_score applied to the performance records.
NextScore == \E performance \in PerformanceRecords : CalculatePerformanceScore(performance)

SpecScore == Init /\ [][NextScore]_vars

\* SpecScoring: items with and without performance data are indexed, one
\* item a call, with no failure.
ScoringCalls ==
    {"u1"} \X {<<ItemBare>>, <<ItemEmptyPerf>>, <<ItemNegative>>, <<ItemViral>>, <<ItemB>>}

NextScoring ==
    \/ \E c \in ScoringCalls :
          Room(1, MaxIndex, MaxRows) /\ IndexUserContent(c[1], c[2], TRUE)
    \/ AddAppend
    \/ AddInsert(TRUE)
    \/ IndexReturn

SpecScoring == Init /\ [][NextScoring]_vars

\* SpecThreshold: one owner indexes items that score 0, 0.3 and 0.5 (no
\* performance data), and searches with and without a minimum performance.
ThresholdCalls == {"u1"} \X {<<ItemZero>>, <<ItemC>>, <<ItemEmptyPerf>>}

NextThreshold ==
    \/ \E c \in ThresholdCalls :
          Room(1, MaxIndex, MaxRows) /\ IndexUserContent(c[1], c[2], TRUE)
    \/ AddAppend
    \/ AddInsert(TRUE)
    \/ IndexReturn
    \/ \E f \in FilterSets, k \in 1..MaxTopK : Search(embed_text("a"), "u1", f, k)
    \/ \E a \in RetrieveArgs, k \in 1..MaxTopK :
          RetrieveContext("u1", "a", a.platform, a.niche, a.content_type, k)
    \/ RetrievalReturn

SpecThreshold == Init /\ [][NextThreshold]_vars

-----------------------------------------------------------------------------
(* Claims on the consistency of the index and the table (specification Spec) *)

\* C1: whenever no add is in progress, the number of vectors in the index
\* equals the number of rows of the embeddings table.
C1_IndexSizeEqualsRowCount ==
    pc # "insert" => Len(index) = Len(rows)

\* C2: on the first VectorStore instance, started empty, after every
\* index_user_content call that returns normally the size of the index equals
\* the number of rows.
C2_SizesEqualAfterSuccessfulIndexing ==
    (pristine /\ pc = "idle" /\ last.op = "index_user_content" /\ last.kind = "returned")
        => Len(index) = Len(rows)

\* C3: every row has 0 <= faiss_id < index.ntotal and no two rows have the
\* same faiss_id.
C3_PositionsInRangeAndDistinct ==
    /\ \A i \in DOMAIN rows : 0 <= rows[i].faiss_id /\ rows[i].faiss_id < Len(index)
    /\ \A i, j \in DOMAIN rows : i # j => rows[i].faiss_id # rows[j].faiss_id

\* C4: a batch with one item whose vector has another dimension than the index
\* is answered with a result that counts the other items (the item being
\* reported as a failure).
C4_WrongDimensionItemIsReportedNotRaised ==
    (last.op = "index_user_content" /\ last.bad = 1)
        => (last.kind = "returned" /\ last.response.indexed_count = last.len - 1)

\* C5: when a vector was appended and the insert of its row failed, the
\* indexing call raises to its caller, which answers with an error: no success
\* result is returned, whatever the batch and the position of the item.
C5_PartialCommitIsSurfaced ==
    (last.op = "index_user_content" /\ last.partial)
        => (last.kind = "raised" /\ last.response.status = 500)

\* A call that raised at its second item, whose vector is in the index without
\* a row.
C5_Witness ==
    /\ pc = "idle"
    /\ last.op = "index_user_content"
    /\ last.partial
    /\ last.count = 1
    /\ last.len = 2
    /\ Len(index) > Len(rows)

-----------------------------------------------------------------------------
(* Claims on retrieval (specifications SpecSearch and SpecScenarioA) *)

\* Row r belongs to the owner and satisfies every filter supplied.
Satisfies(r, user_id, filters) ==
    /\ r.user_id = user_id
    /\ \A k \in DOMAIN filters \cap {"platform", "niche", "content_type"} :
          r[k] = filters[k]
    /\ "min_performance" \in DOMAIN filters =>
          r.performance_score >= filters.min_performance

NonIncreasing(res) ==
    \A i, j \in DOMAIN res : i < j => res[i].performance_score >= res[j].performance_score

\* C6: every item a retrieval returns is a row of the owner that equals each
\* filter value supplied and reaches the minimum performance when one is
\* supplied; no row of another owner is returned.
C6_ResultsBelongToOwnerAndMatchFilters ==
    pc = "retrieved" =>
        \A i \in DOMAIN last.results :
            /\ last.results[i] \in Range(rows)
            /\ Satisfies(last.results[i], last.user_id, last.filters)

\* A non-empty filtered result while another owner holds a row that passes the
\* same filters at a candidate position.
C6_Witness ==
    /\ pc = "retrieved"
    /\ last.results # <<>>
    /\ DOMAIN last.filters # {}
    /\ Len(index) <= 5
    /\ \E r \in Range(rows) :
          r.user_id # last.user_id /\ Satisfies(r, r.user_id, last.filters)

\* C7: on a non-empty index the result is exactly: the min(top_k * 5, size)
\* positions nearest to the query, the rows at those positions that match the
\* owner and the filters, by performance_score descending, the first top_k.
C7_RetrievalIsFilteredPoolRankedByScore ==
    (pc = "retrieved" /\ last.kind = "returned" /\ Len(index) > 0) =>
        \E S \in SUBSET Positions(index) :
            /\ Cardinality(S) = Min(last.top_k * 5, Len(index))
            /\ \A i \in S : \A j \in Positions(index) \ S :
                  L2sqr(last.query, index[i + 1]) <= L2sqr(last.query, index[j + 1])
            /\ LET E == {r \in Range(rows) :
                            r.faiss_id \in S /\ Satisfies(r, last.user_id, last.filters)}
                   res == last.results
               IN  /\ Len(res) = Min(last.top_k, Cardinality(E))
                   /\ Range(res) \subseteq E
                   /\ \A i, j \in DOMAIN res : i # j => res[i] # res[j]
                   /\ NonIncreasing(res)
                   /\ \A r \in E \ Range(res) : \A i \in DOMAIN res :
                         res[i].performance_score >= r.performance_score

\* The index is larger than the candidate pool, and a row of the owner that
\* scores higher than the item returned lies outside the pool.
C7_Witness ==
    /\ pc = "retrieved"
    /\ last.kind = "returned"
    /\ Len(index) > 5 * last.top_k
    /\ last.results # <<>>
    /\ \E r \in Range(rows) :
          /\ Satisfies(r, last.user_id, last.filters)
          /\ r.performance_score > last.results[1].performance_score

\* The store of Scenario A: owner u1, vectors [1,0], [0,1], [0.9,0.1] with
\* scores 0.9, 0.2, 0.3.
ScenarioAStore ==
    /\ index = <<embed_text("a"), embed_text("b"), embed_text("c")>>
    /\ Len(rows) = 3
    /\ \A i \in 1..3 : rows[i].user_id = "u1" /\ rows[i].faiss_id = i - 1
    /\ rows[1].performance_score = 900000
    /\ rows[2].performance_score = 200000
    /\ rows[3].performance_score = 300000

\* C8: the list returned is in non-increasing performance_score, whatever the
\* distances; in Scenario A (query [1,0], top_k = 2, no filters) it is the 0.9
\* item and then the 0.3 item.
C8_OrderedByScoreNotDistance ==
    pc = "retrieved" =>
        /\ NonIncreasing(last.results)
        /\ (/\ ScenarioAStore
            /\ last.op = "search"
            /\ last.query = embed_text("a")
            /\ last.user_id = "u1"
            /\ last.top_k = 2
            /\ DOMAIN last.filters = {})
           => last.results = <<rows[1], rows[3]>>

\* On the store of Scenario A, a query for which the first item returned is
\* farther from the query than the second and scores higher.
C8_Witness ==
    /\ pc = "retrieved"
    /\ ScenarioAStore
    /\ Len(last.results) = 2
    /\ last.results[1].performance_score > last.results[2].performance_score
    /\ L2sqr(last.query, index[last.results[1].faiss_id + 1])
          > L2sqr(last.query, index[last.results[2].faiss_id + 1])

\* C9: a retrieval with a query of the index dimension never raises: it
\* returns the rows available, at most top_k of them, also when the index is
\* empty, the owner has no item, or fewer than top_k rows pass the filters.
C9_NeverFailsForLackOfResults ==
    (pc = "retrieved" /\ Len(last.query) = dimension) =>
        /\ last.kind = "returned"
        /\ Len(last.results) <= last.top_k
        /\ Len(index) = 0 => last.results = <<>>
        /\ (\A r \in Range(rows) : r.user_id # last.user_id) => last.results = <<>>

\* Fewer rows than asked for come back from a non-empty index.
C9_Witness ==
    /\ pc = "retrieved"
    /\ last.kind = "returned"
    /\ Len(index) > 0
    /\ Len(last.results) < last.top_k
    /\ last.results # <<>>

\* C10: a retrieval whose query vector has another dimension than the index is
\* rejected in every state of the store, the empty index included.
C10_WrongDimensionQueryIsRejected ==
    (pc = "retrieved" /\ Len(last.query) # dimension) => last.kind = "raised"

-----------------------------------------------------------------------------
(* Claims on concurrent calls (specification SpecConcurrent) *)

\* Row r designates its own vector in the index.
OwnVector(r) ==
    /\ 0 <= r.faiss_id
    /\ r.faiss_id < Len(index)
    /\ index[r.faiss_id + 1] = embed_text(r.content)

\* C11: concurrent add calls are serialized: once they have all returned the
\* store is as after the same calls one after the other, with no vector
\* without a row, no row without a vector, no faiss_id held by two rows, and
\* each row at the position of its own vector.
C11_ConcurrentAddsAreSerialized ==
    (\A t \in Threads : threads[t] = ThreadIdle) =>
        /\ Len(index) = Len(rows)
        /\ \A i, j \in DOMAIN rows : i # j => rows[i].faiss_id # rows[j].faiss_id
        /\ \A i \in DOMAIN rows : OwnVector(rows[i])

\* C12: a search that runs while an add is in progress reads the index and
\* the table in a state where the index size equals the number of rows.
C12_SearchSeesConsistentSnapshot ==
    \A t \in Threads :
        /\ threads[t].pc \in {"sql", "found"} => threads[t].first[1] = threads[t].first[2]
        /\ threads[t].pc = "found" => threads[t].second[1] = threads[t].second[2]

-----------------------------------------------------------------------------
(* Claims on persistence and restart (specification Spec) *)

\* C13: when the application is shut down, which saves the index, and started
\* again over the same files, every retrieval with a query of the index
\* dimension returns the same list as it did before the restart.
C13_RetrievalSurvivesRestart ==
    [][LifespanRestart =>
         \A q \in {v \in QueryVectors : Len(v) = dimension}, u \in Users,
            f \in FilterSets, k \in 1..MaxTopK :
             search(index', rows', q, u, f, k) = search(index, rows, q, u, f, k)]_vars

\* C14: load_index of a file written by save_index gives the store exactly
\* the index that was saved: the same vectors at the same positions, and the
\* same size, whatever index the loading store held before.
C14_SaveThenLoadRoundTrip ==
    (pc = "idle" /\ last.op = "load_index" /\ last.found) => index = disk.saved

\* A load that replaced a different index by a saved one of two different
\* vectors.
C14_Witness ==
    /\ pc = "idle"
    /\ last.op = "load_index"
    /\ last.found
    /\ last.before # index
    /\ Len(index) = 2
    /\ index[1] # index[2]

\* C15: the faiss_id of a row equals the number of items inserted before it,
\* so that the positions of the rows are 0, 1, ..., n-1 in the order of
\* insertion, with no gap and none twice.
C15_PositionsAreInsertionRanks ==
    \A i \in DOMAIN rows : rows[i].faiss_id = i - 1

IsPrefix(s, t) ==
    /\ Len(s) <= Len(t)
    /\ \A i \in DOMAIN s : s[i] = t[i]

\* C16 as stated: on one store (between two starts of the process) no
\* operation, load_index included, makes the index shorter or changes the
\* vector at a position.
C16_IndexIsAppendOnly ==
    [][(LifespanRestart \/ CrashRestart) \/ IsPrefix(index, index')]_vars

\* C16: on one store, add, search, save_index, count_user_content, and
\* load_index when there is no file, never make the index shorter and never
\* change the vector at a position; a load_index that finds the file replaces
\* the whole index.
C16_IndexIsAppendOnlyButForLoad ==
    [][(LifespanRestart \/ CrashRestart \/ (LoadIndex /\ disk.file.exists))
         \/ IsPrefix(index, index')]_vars

\* An index saved with one vector has grown by a second one, on the first
\* store, and the first vector is where it was.
C16_Witness ==
    /\ pristine
    /\ disk.file.exists
    /\ Len(disk.saved) = 1
    /\ Len(index) = 2
    /\ index[1] = disk.saved[1]
    /\ index[2] # index[1]

-----------------------------------------------------------------------------
(* Claims on the result of indexing (specification Spec) *)

\* C17: every indexing call, whatever its outcome, answers its caller with
\* indexed_count equal to the number of items it committed, and with the list
\* of the items that failed when some did.
C17_CallerReceivesCountAndFailures ==
    (pc = "idle" /\ last.op = "index_user_content") =>
        /\ Has(last.response, "indexed_count")
        /\ last.response.indexed_count = last.count
        /\ last.count < last.len => Has(last.response, "failed")

-----------------------------------------------------------------------------
(* Claims on the performance score (specifications SpecScore, SpecScoring) *)

\* The weighted sum of the counters of record p, a missing counter being 0,
\* in millionths.  The counters are taken in hundreds (every value of
\* CounterValues is a multiple of 100): views/100000*0.4 is 400 millionths a
\* hundred views, likes/5000*0.3 is 6000, comments/500*0.2 is 40000 and
\* shares/200*0.1 is 50000.
WeightedSum(p) ==
    LET hundreds(k) == IF k \in DOMAIN p THEN p[k] \div 100 ELSE 0
    IN  hundreds("views") * 400 + hundreds("likes") * 6000
        + hundreds("comments") * 40000 + hundreds("shares") * 50000

\* C18: for a performance record with at least one counter supplied the score
\* is min(1.0, views/100000*0.4 + likes/5000*0.3 + comments/500*0.2 +
\* shares/200*0.1), missing counters being 0; views = 250000 alone gives 1.0.
C18_ScoreIsClampedWeightedSum ==
    (last.op = "_calculate_performance_score" /\ DOMAIN last.performance # {}) =>
        /\ last.score = (IF WeightedSum(last.performance) > ScoreOne
                         THEN ScoreOne ELSE WeightedSum(last.performance))
        /\ last.performance = [views |-> 250000] => last.score = ScoreOne

\* A record with two counters missing whose weighted sum exceeds 1.0.
C18_Witness ==
    /\ last.op = "_calculate_performance_score"
    /\ DOMAIN last.performance = {"views", "likes"}
    /\ WeightedSum(last.performance) > ScoreOne
    /\ last.score = ScoreOne

\* The item carries no performance data: no 'performance' key, or an empty
\* (or None) value.
NoPerformanceData(item) ==
    ~Has(item, "performance") \/ DOMAIN item.performance = {}

\* C19: the row inserted for an item with no performance data has
\* performance_score 0.5.
C19_NoPerformanceDataScoresNeutral ==
    [][(pc = "insert" /\ pc' = "loop" /\ NoPerformanceData(Head(call.todo)))
         => rows'[Len(rows')].performance_score = ScoreNeutral]_vars

\* Rows were stored for an item without the 'performance' key and for an item
\* with an empty one, both with 0.5.
C19_Witness ==
    /\ \E i \in DOMAIN rows :
          rows[i].content = ItemBare.content /\ rows[i].performance_score = ScoreNeutral
    /\ \E i \in DOMAIN rows :
          rows[i].content = ItemEmptyPerf.content /\ rows[i].performance_score = ScoreNeutral

\* C20: every row has 0.0 <= performance_score <= 1.0, whatever the raw
\* performance record of its item, negative counters included.
C20_StoredScoreInUnitInterval ==
    \A i \in DOMAIN rows :
        0 <= rows[i].performance_score /\ rows[i].performance_score <= ScoreOne

-----------------------------------------------------------------------------
(* Claims on the minimum performance (specification SpecThreshold) *)

\* The rows of the owner that pass the filters other than min_performance.
PassOtherFilters(user_id, filters) ==
    {r \in Range(rows) :
        /\ r.user_id = user_id
        /\ \A k \in DOMAIN filters \cap {"platform", "niche", "content_type"} :
              r[k] = filters[k]}

\* C21: search applies a minimum performance only when the filters hold one.
\* With one, every item returned reaches it; with none, no row is left out for
\* its score: when the candidate pool covers the index, the rows of the owner
\* that pass the other filters come back up to top_k, whatever their score.
C21_NoDefaultThresholdInSearch ==
    (pc = "retrieved" /\ last.op = "search" /\ last.kind = "returned") =>
        /\ Has(last.filters, "min_performance") =>
              \A i \in DOMAIN last.results :
                  last.results[i].performance_score >= last.filters.min_performance
        /\ (/\ ~Has(last.filters, "min_performance")
            /\ Len(index) > 0
            /\ Len(index) <= 5 * last.top_k)
           => Len(last.results)
                = Min(last.top_k,
                      Cardinality(PassOtherFilters(last.user_id, last.filters)))

\* A search without a minimum performance returned an item that scores 0.
C21_Witness ==
    /\ pc = "retrieved"
    /\ last.op = "search"
    /\ ~Has(last.filters, "min_performance")
    /\ \E i \in DOMAIN last.results : last.results[i].performance_score = 0

\* C27: every item retrieve_context returns scores at least 0.5, whatever the
\* arguments; the rows that score exactly 0.5 stay eligible (when the pool
\* covers the index, the rows of the owner that pass the filters and score at
\* least 0.5 come back up to top_k) and no row that scores less is returned.
C27_RetrieveContextKeepsHalfAndAbove ==
    (pc = "retrieved" /\ last.op = "retrieve_context" /\ last.kind = "returned") =>
        /\ \A i \in DOMAIN last.results :
              last.results[i].performance_score >= MinPerformance
        /\ (Len(index) > 0 /\ Len(index) <= 5 * last.top_k)
           => Len(last.results)
                = Min(last.top_k,
                      Cardinality({r \in PassOtherFilters(last.user_id, last.filters) :
                                      r.performance_score >= MinPerformance}))

\* retrieve_context returned an item indexed with no performance data (0.5)
\* and left out a row of the owner that passes the filters and scores less.
C27_Witness ==
    /\ pc = "retrieved"
    /\ last.op = "retrieve_context"
    /\ \E i \in DOMAIN last.results : last.results[i].performance_score = ScoreNeutral
    /\ \E r \in PassOtherFilters(last.user_id, last.filters) :
          r.performance_score < MinPerformance

-----------------------------------------------------------------------------
(* Claims on the candidate pool (specification SpecSearch) *)

\* C26: when the index holds at most 5 * top_k vectors and its positions are
\* those of the rows, search returns the top_k highest-scoring rows among all
\* the rows of the owner that match the filters, min(top_k, their number) of
\* them: none is lost to the vectors of other owners.
C26_SmallIndexPoolCoversEverything ==
    (/\ pc = "retrieved"
     /\ last.kind = "returned"
     /\ Len(index) > 0
     /\ Len(index) <= 5 * last.top_k
     /\ Len(index) = Len(rows)
     /\ \A i \in DOMAIN rows : rows[i].faiss_id = i - 1) =>
        LET E == {r \in Range(rows) : Satisfies(r, last.user_id, last.filters)}
            res == last.results
        IN  /\ Len(res) = Min(last.top_k, Cardinality(E))
            /\ Range(res) \subseteq E
            /\ \A i, j \in DOMAIN res : i # j => res[i] # res[j]
            /\ NonIncreasing(res)
            /\ \A r \in E \ Range(res) : \A i \in DOMAIN res :
                  res[i].performance_score >= r.performance_score

\* An index of at most 5 * top_k vectors in which more than top_k vectors of
\* another owner are nearer to the query than the item returned.
C26_Witness ==
    /\ pc = "retrieved"
    /\ last.kind = "returned"
    /\ Len(index) <= 5 * last.top_k
    /\ Len(index) = Len(rows)
    /\ Len(last.results) = last.top_k
    /\ Cardinality({r \in Range(rows) :
                       /\ r.user_id # last.user_id
                       /\ L2sqr(last.query, index[r.faiss_id + 1])
                             < L2sqr(last.query, index[last.results[1].faiss_id + 1])})
          > last.top_k

-----------------------------------------------------------------------------
(* Claims on count_user_content (specification Spec) *)

\* The number of rows of rws, up to the n-th, whose user_id is u.
RECURSIVE RowsOf(_, _, _)
RowsOf(u, rws, n) ==
    IF n = 0 THEN 0
    ELSE RowsOf(u, rws, n - 1) + (IF rws[n].user_id = u THEN 1 ELSE 0)

\* C23: count_user_content(u) is the number of rows whose user_id is u; that
\* number grows by one with each item successfully added for u and by nothing
\* else: adding items for another owner leaves it as it was.
C23_CountIsRowsOfOwner ==
    [][/\ (pc' = "idle" /\ last'.op = "count_user_content")
            => last'.count = RowsOf(last'.user_id, rows', Len(rows'))
       /\ \A u \in Users :
            RowsOf(u, rows', Len(rows'))
              = RowsOf(u, rows, Len(rows))
                + (IF pc = "insert" /\ pc' = "loop" /\ call.user_id = u THEN 1 ELSE 0)]_vars

\* The count of an owner is 1 while the table also holds a row of another
\* owner.
C23_Witness ==
    /\ pc = "idle"
    /\ last.op = "count_user_content"
    /\ last.count = 1
    /\ Len(rows) = 2
    /\ \E i \in DOMAIN rows : rows[i].user_id # last.user_id

-----------------------------------------------------------------------------
(* Claims on what a failing call leaves unchanged (specification Spec) *)

\* C28: a call of index_user_content that fails while it reads the contents
\* of its items or embeds them raises, and changes neither the index nor the
\* table, whatever the position of the failing item in the batch.
C28_FailureBeforeFirstAddChangesNothing ==
    [][(pc = "idle" /\ pc' = "idle" /\ last'.op = "index_user_content")
         => (/\ last'.kind = "raised"
             /\ last'.response.status = 500
             /\ index' = index
             /\ rows' = rows)]_vars

\* A call raised for a batch of two items of which exactly one has no content.
C28_Witness ==
    /\ pc = "idle"
    /\ last.op = "index_user_content"
    /\ last.kind = "raised"
    /\ last.len = 2
    /\ last.missing = 1

-----------------------------------------------------------------------------
(* Claims on persistence beside writers (specification SpecExclusive) *)

\* C22: save_index and load_index are exclusive with writers: neither takes
\* place while an add has appended its vector and not yet inserted its row, so
\* the index saved has the size of the table and a load never replaces the
\* index under an add.
C22_PersistenceExcludesWriters ==
    [][(SaveIndex \/ LoadIndex) => AddsInProgress = {}]_vars

-----------------------------------------------------------------------------
(* Claims on the swipefile table (specification SpecSwipe) *)

\* Row r after the update is row r before it with the supplied ones of tags,
\* notes and performance_estimate set, and nothing else changed.
OnlySuppliedFieldsSet(before, after, args) ==
    /\ after.id = before.id
    /\ after.user_id = before.user_id
    /\ after.url = before.url
    /\ after.title = before.title
    /\ after.tags = (IF args.tags # None THEN args.tags ELSE before.tags)
    /\ after.notes = (IF args.notes # None THEN args.notes ELSE before.notes)
    /\ after.performance_estimate
         = (IF args.performance_estimate # None THEN args.performance_estimate
            ELSE before.performance_estimate)

\* The table after the step is the table before it but for the row of id
\* video_id, which has the supplied fields set.
OnlyRowUpdated(video_id, args) ==
    /\ swipefile'.seq = swipefile.seq
    /\ {r.id : r \in swipefile'.rows} = {r.id : r \in swipefile.rows}
    /\ \A r \in swipefile.rows : \A s \in swipefile'.rows :
          r.id = s.id =>
             IF r.id = video_id THEN OnlySuppliedFieldsSet(r, s, args) ELSE s = r

C30_OneRowPerUserAndUrl ==
    /\ \A r, s \in swipefile.rows :
          (r.user_id = s.user_id /\ r.url = s.url) => r = s
    /\ (last.op = "save_video" /\ last.existing # 0) =>
          /\ last.kind = "returned"
          /\ ~last.added
          /\ last.id = last.existing

\* A save_video returned the id of the row it found, while another save of
\* the same pair is between its SELECT and its write.
C30_Witness ==
    /\ last.op = "save_video"
    /\ last.existing # 0
    /\ \E r \in swipefile.rows : r.id = last.id /\ r.user_id = last.user_id /\ r.url = last.url
    /\ \E t \in Threads :
          /\ threads[t].pc = "save_selected"
          /\ threads[t].user_id = last.user_id
          /\ threads[t].url = last.url

====
